---- MODULE Spec2Model ----
(***************************************************************************)
(* wvtool: the WvTest protocol processor (WvTestProcessor), its line       *)
(* classes and the run / runall / format drivers of wvtool.py.             *)
(*                                                                         *)
(* Text is modelled by TLA+ strings, read character by character with      *)
(* SubSeq.  The processor object is the record `processor`; every method   *)
(* is an operator from a processor record (and arguments) to the processor *)
(* record after the call.  The field `trace` holds what the latest call of *)
(* a processor method did, in program order: the call itself, the sections *)
(* it finished and opened, and what it wrote to standard output and to the *)
(* JUnit XML file.  The variable `last` holds the processor as that call   *)
(* found it.  The variable `ghost` counts section events over the          *)
(* whole execution; `failures` counts the commands that ended with a       *)
(* return code other than 0 and `alarms` the alarms that fired.            *)
(***************************************************************************)
EXTENDS Integers, Sequences, FiniteSets, TLC

VARIABLES processor, last, ghost, driver, streams, stream, input, pc, nLines,
          failures, alarms, exitCode, field, frame

vars == <<processor, last, ghost, driver, streams, stream, input, pc, nLines,
          failures, alarms, exitCode, field, frame>>

(* ------------------------------ bounds -------------------------------- *)

\* Lines the processor is given in one execution: the lines read from the
\* streams, the alarm lines and the lines that report a failed command.  A
\* source that delivers given lines delivers all of them.
MaxLines == 2

\* Commands of runall / input files of format in one execution.
MaxStreams == 2

\* Fragments that a line of the classifier's input is made of.
MaxFrags == 3

\* Characters of a field value that is escaped for the JUnit XML.
MaxValueLen == 2

(* ------------------------------ text ---------------------------------- *)

\* Python's None.
None == [type |-> "None"]

Char(s, i) == SubSeq(s, i, i)

\* str.isspace() for the characters that occur in lines.
IsSpace(c) == c \in {" ", "\t", "\n", "\r"}

StartsWith(s, pre) == Len(s) >= Len(pre) /\ SubSeq(s, 1, Len(pre)) = pre

RECURSIVE rstripChars(_, _)
\* str.rstrip(chars): drop the trailing characters that are in chars.
rstripChars(s, chars) ==
    IF Len(s) > 0 /\ Char(s, Len(s)) \in chars
    THEN rstripChars(SubSeq(s, 1, Len(s) - 1), chars)
    ELSE s

\* str.rstrip(): drop trailing white space.
rstrip(s) == rstripChars(s, {" ", "\t", "\n", "\r"})

RECURSIVE lstrip(_)
\* The text left after a greedy leading \s*.
lstrip(s) ==
    IF Len(s) > 0 /\ IsSpace(Char(s, 1))
    THEN lstrip(SubSeq(s, 2, Len(s)))
    ELSE s

RECURSIVE replace(_, _, _)
\* str.replace(old, new) for a one-character old.
replace(s, old, new) ==
    IF Len(s) = 0 THEN ""
    ELSE (IF Char(s, 1) = old THEN new ELSE Char(s, 1))
         \o replace(SubSeq(s, 2, Len(s)), old, new)

(* ---------------------------- line classes ---------------------------- *)

\* WvPlainLine.re = "(?P<line>.*)": matches every line.
PlainMatch(line) == TRUE

WvPlainLine(line) == [type |-> "WvPlainLine", line |-> line]

\* WvTestingLine.re = 'Testing "(?P<what>.*)" in (?P<where>.*):$' (re_prefix
\* is empty).  `what` is greedy: it ends at the last '" in ' of the line.
TestingSeps(line) ==
    {q \in 10..(Len(line) - 5) : SubSeq(line, q, q + 4) = "\" in "}

TestingMatch(line) ==
    /\ StartsWith(line, "Testing \"")
    /\ Char(line, Len(line)) = ":"
    /\ TestingSeps(line) # {}

Max(S) == CHOOSE x \in S : \A y \in S : y <= x

\* WvTestingLine(match)
WvTestingLineRe(line) ==
    LET q == Max(TestingSeps(line))
    IN  [type |-> "WvTestingLine", prefix |-> "",
         what |-> SubSeq(line, 10, q - 1),
         where |-> SubSeq(line, q + 5, Len(line) - 1)]

\* WvTestingLine(what, where)
WvTestingLine(what, where) ==
    [type |-> "WvTestingLine", prefix |-> "", what |-> what, where |-> where]

\* WvCheckLine.re = '!\s*(?P<text>.*?)\s+(?P<result>\S+)$' on a line without
\* trailing white space: a "!" followed by text that holds white space.
SpaceAt(line) == {i \in 2..Len(line) : IsSpace(Char(line, i))}

CheckMatch(line) == StartsWith(line, "!") /\ SpaceAt(line) # {}

\* WvCheckLine(match): result is the last word; text is what lies between
\* the white space after "!" and the white space before the result (lazy).
WvCheckLineRe(line) ==
    LET i == Max(SpaceAt(line))
        body == rstrip(SubSeq(line, 2, i))
    IN  [type |-> "WvCheckLine", prefix |-> "",
         text |-> lstrip(body),
         result |-> SubSeq(line, i + 1, Len(line))]

\* WvCheckLine(text, result)
WvCheckLine(text, result) ==
    [type |-> "WvCheckLine", prefix |-> "",
     text |-> rstripChars(text, {" ", "."}), result |-> result]

\* WvTagLine.re = 'wvtest:\s*(?P<tag>.*)$'
TagMatch(line) == StartsWith(line, "wvtest:")

WvTagLine(line) ==
    [type |-> "WvTagLine", prefix |-> "",
     tag |-> lstrip(SubSeq(line, 8, Len(line)))]

\* Mutant of is_success_check: any result that is not empty is a success.
is_success_check_Truthy(check) == check.result # ""

\* Mutant of is_success_check: the result is compared without regard to case.
is_success_check_AnyCase(check) == check.result \in {"ok", "OK", "Ok", "oK"}

\* WvCheckLine.is_success
is_success_check(check) == check.result = "ok"

\* WvTestingLine.asWvCheckLine
asWvCheckLine(testing, result) ==
    WvCheckLine(testing.where \o "  " \o testing.what, result)

\* str(entry).  WvTagLine defines no __str__: str() is the object's default
\* representation, a non-empty text that does not show the tag.
Str(entry) ==
    CASE entry.type = "WvPlainLine" -> entry.line
      [] entry.type = "WvTestingLine" ->
            entry.prefix \o "Testing \"" \o entry.what \o "\" in "
            \o entry.where \o ":"
      [] entry.type = "WvCheckLine" ->
            entry.prefix \o "! " \o entry.text \o " " \o entry.result
      [] entry.type = "WvTagLine" -> "<wvtool.WvTagLine object>"

(* ------------------------- WvTestProcessor ---------------------------- *)

SUMMARY == 1
NORMAL == 2
VERBOSE == 3

\* WvTestProcessor.__init__
\* logdir is the empty string when no log directory is given (None in the
\* source: both are false in a condition).
NewProcessor(verbosity, junit_xml, junit_prefix) ==
    [checkCount |-> 0, checkFailedCount |-> 0,
     testCount |-> 0, testFailedCount |-> 0,
     implicitTestTitle |-> None, currentTest |-> None,
     verbosity |-> verbosity,
     junit_xml |-> junit_xml, junit_prefix |-> junit_prefix,
     junitTestcases |-> <<>>, junitTestsuites |-> <<>>,
     entries |-> <<>>,
     logdir |-> "", log |-> None,
     trace |-> <<>>]

\* The start of a method call: the trace starts again with the call.
Call(p, op, arg) ==
    [p EXCEPT !.trace = <<[ev |-> "call", op |-> op, arg |-> arg]>>]

Emit(p, event) == [p EXCEPT !.trace = Append(@, event)]

\* entry.print(): one line on standard output, formatted from the entry.
PrintEntry(p, entry) == Emit(p, [ev |-> "print", line |-> entry])

setImplicitTestTitle(p, testing) ==
    [Call(p, "setImplicitTestTitle", testing) EXCEPT
        !.implicitTestTitle = testing]

RECURSIVE PrintAll(_, _)
PrintAll(p, es) ==
    IF es = <<>> THEN p ELSE PrintAll(PrintEntry(p, Head(es)), Tail(es))

\* WvTestProcessor.print: every entry of the list, in order.
print(p) == PrintAll(p, p.entries)

RECURSIVE JoinLines(_)
JoinLines(es) ==
    IF es = <<>> THEN ""
    ELSE IF Len(es) = 1 THEN Str(es[1])
    ELSE Str(es[1]) \o "\n" \o JoinLines(Tail(es))

plainText(p) == JoinLines(p.entries) \o "\n"

JUnitName(p) ==
    p.junit_prefix \o replace(p.currentTest.where, ".", "_") \o "."
    \o p.currentTest.what

_rememberJUnitTestcase(p, check) ==
    IF ~p.junit_xml THEN p
    ELSE [p EXCEPT !.junitTestcases = Append(@,
            [classname |-> JUnitName(p),
             name |-> check.text,
             failure |-> IF ~is_success_check(check)
                         THEN [type |-> "WvTest check", message |-> check.text]
                         ELSE None])]

\* Mutant of _rememberJUnitTestsuite: the cases are not reset for the next
\* section.
_rememberJUnitTestsuite_KeepsCases(p) ==
    IF ~p.junit_xml THEN p
    ELSE [p EXCEPT
            !.junitTestsuites = Append(@,
                [tests |-> p.checkCount,
                 failures |-> p.checkFailedCount,
                 errors |-> 0,
                 name |-> JUnitName(p),
                 testcases |-> p.junitTestcases,
                 system_out |-> plainText(p)])]

_rememberJUnitTestsuite(p) ==
    IF ~p.junit_xml THEN p
    ELSE [p EXCEPT
            !.junitTestsuites = Append(@,
                [tests |-> p.checkCount,
                 failures |-> p.checkFailedCount,
                 errors |-> 0,
                 name |-> JUnitName(p),
                 testcases |-> p.junitTestcases,
                 system_out |-> plainText(p)]),
            !.junitTestcases = <<>>]

\* Testsuites.print to the junit_xml file.
_generateJUnitXML(p) ==
    IF ~p.junit_xml THEN p
    ELSE Emit(p, [ev |-> "xml", testsuites |-> p.junitTestsuites])

\* Mutant of clear: the captured text of the stored suites is the buffer
\* itself and is emptied with it.
clear_StoredText(p) ==
    [p EXCEPT !.entries = <<>>,
              !.junitTestsuites =
                    [i \in DOMAIN @ |-> [@[i] EXCEPT !.system_out = ""]]]

\* clear, lines 366-367: del self[:]
clear(p) == [p EXCEPT !.entries = <<>>]

\* The section that _finishCurrentTest finishes, with its counters (ghost).
FinishMark(p) ==
    Emit(p, [ev |-> "finish", test |-> p.currentTest,
             checkCount |-> p.checkCount,
             checkFailedCount |-> p.checkFailedCount])

\* Mutant of FinishPrintFailed: NORMAL prints the one FAILED line too.
FinishPrintFailed_OneLine(p) ==
    IF p.verbosity <= NORMAL
    THEN PrintEntry(p, asWvCheckLine(p.currentTest, "FAILED"))
    ELSE p

\* _finishCurrentTest, lines 353-356: what a failed section prints.
FinishPrintFailed(p) ==
    IF p.verbosity = NORMAL THEN print(p)
    ELSE IF p.verbosity < NORMAL
    THEN PrintEntry(p, asWvCheckLine(p.currentTest, "FAILED"))
    ELSE p

\* Mutant of FinishReport: a failed section adds its failed checks, not 1.
FinishReport_AddsChecks(p) ==
    IF p.checkFailedCount > 0
    THEN [FinishPrintFailed(p) EXCEPT !.testFailedCount = @ + p.checkFailedCount]
    ELSE IF p.verbosity <= NORMAL
    THEN PrintEntry(p, asWvCheckLine(p.currentTest, "ok"))
    ELSE p

\* Mutant of FinishReport: a section without checks is reported as failed.
FinishReport_EmptyFails(p) ==
    IF p.checkFailedCount > 0 \/ p.checkCount = 0
    THEN [FinishPrintFailed(p) EXCEPT !.testFailedCount = @ + 1]
    ELSE IF p.verbosity <= NORMAL
    THEN PrintEntry(p, asWvCheckLine(p.currentTest, "ok"))
    ELSE p

\* Mutant of FinishReport: the finished section is counted in testCount.
FinishReport_CountsTest(p) ==
    IF p.checkFailedCount > 0
    THEN [FinishPrintFailed(p) EXCEPT !.testFailedCount = @ + 1,
                                      !.testCount = @ + 1]
    ELSE IF p.verbosity <= NORMAL
    THEN PrintEntry([p EXCEPT !.testCount = @ + 1],
                    asWvCheckLine(p.currentTest, "ok"))
    ELSE [p EXCEPT !.testCount = @ + 1]

\* _finishCurrentTest, lines 350-360.
FinishReport(p) ==
    IF p.checkFailedCount > 0
    THEN [FinishPrintFailed(p) EXCEPT !.testFailedCount = @ + 1]
    ELSE IF p.verbosity <= NORMAL
    THEN PrintEntry(p, asWvCheckLine(p.currentTest, "ok"))
    ELSE p

\* _finishCurrentTest, lines 363-364: the log file is closed; self.log
\* keeps the closed file.
FinishClose(p) ==
    IF p.log # None THEN [p EXCEPT !.log.closed = TRUE] ELSE p

_finishCurrentTest(p) ==
    FinishClose(clear(FinishReport(_rememberJUnitTestsuite(FinishMark(p)))))

\* Mutant of NewTestFinish: the open section is not finished.
NewTestFinish_Never(p) == p

\* _newTest, lines 370-371.
NewTestFinish(p) ==
    IF p.currentTest # None THEN _finishCurrentTest(p) ELSE p

\* Mutant of NewTestOpen: the opened section is not counted.
NewTestOpen_NoCount(p, testing) ==
    IF testing # None
    THEN Emit(p, [ev |-> "open", test |-> testing])
    ELSE p

\* _newTest, lines 372-385; the opened section is marked in the trace.
NewTestOpen(p, testing) ==
    IF testing # None
    THEN Emit([p EXCEPT !.testCount = @ + 1], [ev |-> "open", test |-> testing])
    ELSE p

\* Mutant of NewTestSet: checkFailedCount is not reset.
NewTestSet_KeepsFailed(p, testing) ==
    [p EXCEPT !.currentTest = testing,
              !.checkCount = 0]

\* _newTest, lines 386-388.
NewTestSet(p, testing) ==
    [p EXCEPT !.currentTest = testing,
              !.checkCount = 0,
              !.checkFailedCount = 0]

\* "%d" of one digit.
Digit(i) == SubSeq("0123456789", i + 1, i + 1)

\* str.translate(str.maketrans(' /', '__'))
translate(s) == replace(replace(s, " ", "_"), "/", "_")

UpperCase == "ABCDEFGHIJKLMNOPQRSTUVWXYZ"
LowerCase == "abcdefghijklmnopqrstuvwxyz"

\* str.lower of one character.
lowerChar(c) ==
    IF \E i \in 1..Len(UpperCase) : Char(UpperCase, i) = c
    THEN Char(LowerCase, CHOOSE i \in 1..Len(UpperCase) : Char(UpperCase, i) = c)
    ELSE c

\* str.lower
RECURSIVE lower(_)
lower(s) ==
    IF s = "" THEN ""
    ELSE lowerChar(Char(s, 1)) \o lower(SubSeq(s, 2, Len(s)))

\* _newTest, lines 379-382: the name of the log file of a section.
LogName(testCount, testing) ==
    "000" \o Digit(testCount) \o "-" \o translate(testing.where) \o "-"
    \o translate(lower(testing.what)) \o ".log"

\* Mutant of NewTestLog: a log file is created for the first section only.
NewTestLog_OnlyFirst(p, testing) ==
    IF testing # None /\ p.logdir # "" /\ p.log = None
    THEN [p EXCEPT !.log = [name |-> LogName(p.testCount, testing),
                            closed |-> FALSE]]
    ELSE p

\* _newTest, lines 377-383: with a log directory, the log file of the
\* opened section is created.
NewTestLog(p, testing) ==
    IF testing # None /\ p.logdir # ""
    THEN [p EXCEPT !.log = [name |-> LogName(p.testCount, testing),
                            closed |-> FALSE]]
    ELSE p

\* Mutant of _newTest: the counters are reset and the open section is not
\* finished.
_newTest_NoFinish(p, testing) ==
    NewTestSet(NewTestLog(NewTestOpen(p, testing), testing), testing)

_newTest(p, testing) ==
    NewTestSet(NewTestLog(NewTestOpen(NewTestFinish(p), testing), testing),
               testing)

\* _newCheck, lines 391-393.
CountCheck(p, check) ==
    [p EXCEPT !.checkCount = @ + 1,
              !.checkFailedCount =
                    IF ~is_success_check(check) THEN @ + 1 ELSE @]

_newCheck(p, check) == _rememberJUnitTestcase(CountCheck(p, check), check)

\* Mutant of AppendImplicit: the synthesis leaves the title pending.
AppendImplicit_KeepsTitle(p, logEntry) ==
    IF p.implicitTestTitle # None
    THEN IF Str(logEntry) = "" THEN p
         ELSE IF logEntry.type # "WvTestingLine"
         THEN [_newTest(p, p.implicitTestTitle) EXCEPT
                    !.entries = Append(@, p.implicitTestTitle)]
         ELSE [p EXCEPT !.implicitTestTitle = None]
    ELSE p

\* Mutant of AppendImplicit: a blank line fires the synthesis too.
AppendImplicit_BlankFires(p, logEntry) ==
    IF p.implicitTestTitle # None
    THEN IF logEntry.type # "WvTestingLine"
         THEN [_newTest(p, p.implicitTestTitle) EXCEPT
                    !.entries = Append(@, p.implicitTestTitle),
                    !.implicitTestTitle = None]
         ELSE [p EXCEPT !.implicitTestTitle = None]
    ELSE p

\* append, lines 397-405: the implicit title.
AppendImplicit(p, logEntry) ==
    IF p.implicitTestTitle # None
    THEN IF Str(logEntry) = "" THEN p
         ELSE IF logEntry.type # "WvTestingLine"
         THEN [_newTest(p, p.implicitTestTitle) EXCEPT
                    !.entries = Append(@, p.implicitTestTitle),
                    !.implicitTestTitle = None]
         ELSE [p EXCEPT !.implicitTestTitle = None]
    ELSE p

\* Mutant of AppendDispatch: tag and plain lines are counted as checks.
AppendDispatch_CountsAll(p, logEntry) ==
    IF logEntry.type = "WvTestingLine" THEN _newTest(p, logEntry)
    ELSE IF logEntry.type = "WvCheckLine" THEN _newCheck(p, logEntry)
    ELSE [p EXCEPT !.checkCount = @ + 1]

\* append, lines 408-411.
AppendDispatch(p, logEntry) ==
    IF logEntry.type = "WvTestingLine" THEN _newTest(p, logEntry)
    ELSE IF logEntry.type = "WvCheckLine" THEN _newCheck(p, logEntry)
    ELSE p

\* append, line 413: list.append(self, logEntry).
AppendList(p, logEntry) == [p EXCEPT !.entries = Append(@, logEntry)]

\* append, lines 415-416.
AppendEcho(p, logEntry) ==
    IF p.verbosity = VERBOSE THEN PrintEntry(p, logEntry) ELSE p

\* append, lines 421-422: logEntry.log(self.log); a closed file raises
\* ValueError.
AppendLog(p, logEntry) ==
    IF p.log = None THEN p
    ELSE IF p.log.closed
    THEN Emit(p, [ev |-> "logerror", file |-> p.log.name, line |-> logEntry])
    ELSE Emit(p, [ev |-> "log", file |-> p.log.name, line |-> logEntry])

append(p, logEntry) ==
    AppendLog(
        AppendEcho(
            AppendList(
                AppendDispatch(
                    AppendImplicit(Call(p, "append", logEntry), logEntry),
                    logEntry),
                logEntry),
            logEntry),
        logEntry)

\* Mutant of Classify: WvPlainLine is tried before WvTagLine.
Classify_PlainBeforeTag(line) ==
    IF CheckMatch(line) THEN WvCheckLineRe(line)
    ELSE IF TestingMatch(line) THEN WvTestingLineRe(line)
    ELSE IF PlainMatch(line) THEN WvPlainLine(line)
    ELSE IF TagMatch(line) THEN WvTagLine(line)
    ELSE None

\* The first class of [WvCheckLine, WvTestingLine, WvTagLine, WvPlainLine]
\* whose pattern matches the stripped line.
Classify(line) ==
    IF CheckMatch(line) THEN WvCheckLineRe(line)
    ELSE IF TestingMatch(line) THEN WvTestingLineRe(line)
    ELSE IF TagMatch(line) THEN WvTagLine(line)
    ELSE IF PlainMatch(line) THEN WvPlainLine(line)
    ELSE None

processLine(p, line) == append(p, Classify(rstrip(line)))

\* done, lines 443-445: the summary line.
DoneSummary(p) ==
    Emit(p, [ev |-> "summary",
             total |-> p.testCount,
             plt |-> IF p.testCount = 1 THEN "" ELSE "s",
             fail |-> p.testFailedCount,
             plf |-> IF p.testFailedCount = 1 THEN "" ELSE "s"])

\* Mutant of done: the JUnit XML is written before the open section is
\* finished.
done_XmlFirst(p) ==
    DoneSummary(_newTest(_generateJUnitXML(Call(p, "done", None)), None))

done(p) == DoneSummary(_generateJUnitXML(_newTest(Call(p, "done", None), None)))

is_success(p) == p.testFailedCount = 0

(* ------------------------------- ghost -------------------------------- *)

\* The places of trace t where a section opens, where one is finished, and
\* where one with a failed check is finished.
OpenIdx(t) == {i \in 1..Len(t) : t[i].ev = "open"}
FinishIdx(t) == {i \in 1..Len(t) : t[i].ev = "finish"}
FailedFinishIdx(t) ==
    {i \in 1..Len(t) : t[i].ev = "finish" /\ t[i].checkFailedCount > 0}

\* The latest call is append(logEntry) / append of a section header.
IsAppend(p) == p.trace # <<>> /\ p.trace[1].op = "append"
IsHeaderAppend(p) == IsAppend(p) /\ p.trace[1].arg.type = "WvTestingLine"

\* The latest call materialized the implicit title: an append of a line
\* that is no section header opened a section.
IsSynthesis(p) ==
    /\ IsAppend(p)
    /\ p.trace[1].arg.type # "WvTestingLine"
    /\ Cardinality(OpenIdx(p.trace)) > 0

IsSetTitle(p) == p.trace # <<>> /\ p.trace[1].op = "setImplicitTestTitle"

\* The latest call is append of a check line whose result is not ok.
IsFailedCheckAppend(p) ==
    /\ IsAppend(p)
    /\ p.trace[1].arg.type = "WvCheckLine"
    /\ p.trace[1].arg.result # "ok"

NoGhost ==
    [opened |-> 0, finished |-> 0, finishedFailed |-> 0,
     synth |-> 0, headerSeen |-> FALSE,
     synthSinceTitle |-> 0, headerSinceTitle |-> FALSE,
     failedCheck |-> FALSE]

\* The counts after a method call that left the processor as p.
Observe(g, p) ==
    [opened |-> g.opened + Cardinality(OpenIdx(p.trace)),
     finished |-> g.finished + Cardinality(FinishIdx(p.trace)),
     finishedFailed |-> g.finishedFailed + Cardinality(FailedFinishIdx(p.trace)),
     synth |-> g.synth + (IF IsSynthesis(p) THEN 1 ELSE 0),
     headerSeen |-> g.headerSeen \/ IsHeaderAppend(p),
     synthSinceTitle |->
        IF IsSetTitle(p) THEN 0
        ELSE g.synthSinceTitle + (IF IsSynthesis(p) THEN 1 ELSE 0),
     headerSinceTitle |->
        IF IsSetTitle(p) THEN FALSE
        ELSE g.headerSinceTitle \/ IsHeaderAppend(p),
     failedCheck |-> g.failedCheck \/ IsFailedCheckAppend(p)]

(* ------------------------------ drivers ------------------------------- *)

\* The i-th command of run / runall and the i-th input file of format.
Cmd(i) == "c" \o Digit(i)
InFile(i) == "f" \o Digit(i)

\* sys.argv[0] and the timeout of _run, as they appear in messages.
Wvtool == "wvtool"
TimeoutText == "100"

\* "%d" of a return code or a signal number.
IntText(n) ==
    CASE n = 1 -> "1"
      [] n = 15 -> "15"

\* The lines a stream can deliver, each with its line end.
Lines ==
    {"! a ok\n", "! b FAILED\n", "Testing \"t\" in w:\n",
     "wvtest: x\n", "p\n", "\n"}

\* proc.returncode: 0, a positive exit code, or minus a signal number.
ReturnCodes == {0, 1, -15}

Verbosities == {SUMMARY, NORMAL, VERBOSE}

\* main, before args.func is called.
\* The processor and the section counts as the latest call found them, and
\* the step of the driver that made the call.
Before(p, g, by) == [p |-> [p EXCEPT !.trace = <<>>], g |-> g, by |-> by]

\* No field of a JUnit object is being escaped.
NoField == [value |-> <<>>, escaped |-> FALSE, text |-> <<>>, attr |-> <<>>]

\* No call of processLine is in progress.
NoFrame == [logEntry |-> None, at |-> 0]

\* A line source that delivers any of Lines, until any end of file.
AnyLines == [free |-> TRUE, lines |-> <<>>, pos |-> 0]

\* A line source that delivers the given lines and then the end of file.
TheLines(lines) == [free |-> FALSE, lines |-> lines, pos |-> 0]

\* The lines that the source can deliver next.
NextLines ==
    IF input.free THEN Lines
    ELSE IF input.pos < Len(input.lines)
    THEN {input.lines[input.pos + 1]} ELSE {}

\* The source can be at its end.
AtEOF == input.free \/ input.pos = Len(input.lines)

Init ==
    /\ \E v \in Verbosities, j \in BOOLEAN :
          processor = NewProcessor(v, j, "None")
    /\ driver \in {"run", "runall", "format"}
    /\ streams \in 0..MaxStreams
    /\ driver = "run" => streams = 1
    /\ driver = "runall" => streams >= 1
    /\ stream = 0
    /\ input = AnyLines
    /\ pc = "func"
    /\ nLines = 0
    /\ failures = 0
    /\ alarms = 0
    /\ ghost = NoGhost
    /\ last = Before(processor, NoGhost, "Init")
    /\ exitCode = None
    /\ field = NoField
    /\ frame = NoFrame

\* The number of streams the driver reads: format without input files
\* reads standard input.
NStreams == IF driver = "format" /\ streams = 0 THEN 1 ELSE streams

\* _run up to Popen (lines 449-474): the implicit title of the command.
RunStart ==
    /\ driver \in {"run", "runall"}
    /\ pc = "func"
    /\ stream < NStreams
    /\ stream' = stream + 1
    /\ processor' = setImplicitTestTitle(processor,
                        WvTestingLine("Preamble of " \o Cmd(stream + 1), Wvtool))
    /\ ghost' = Observe(ghost, processor')
    /\ last' = Before(processor, ghost, "RunStart")
    /\ pc' = "reading"
    /\ UNCHANGED <<input, driver, streams, nLines, failures, alarms, exitCode,
                   field, frame>>

\* do_format, before the lines of standard input or of one file are read.
FormatStart ==
    /\ driver = "format"
    /\ pc = "func"
    /\ stream < NStreams
    /\ stream' = stream + 1
    /\ processor' = setImplicitTestTitle(processor,
                        WvTestingLine("Preamble",
                            IF streams = 0 THEN "stdin" ELSE InFile(stream + 1)))
    /\ ghost' = Observe(ghost, processor')
    /\ last' = Before(processor, ghost, "FormatStart")
    /\ pc' = "reading"
    /\ UNCHANGED <<input, driver, streams, nLines, failures, alarms, exitCode,
                   field, frame>>

\* One iteration of a read loop: processor.processLine(line).
ReadLine ==
    /\ pc = "reading"
    /\ input.free => nLines < MaxLines
    /\ \E line \in NextLines : processor' = processLine(processor, line)
    /\ input' = IF input.free THEN input ELSE [input EXCEPT !.pos = @ + 1]
    /\ ghost' = Observe(ghost, processor')
    /\ last' = Before(processor, ghost, "ReadLine")
    /\ nLines' = nLines + 1
    /\ UNCHANGED <<driver, streams, stream, pc, failures, alarms, exitCode,
                   field, frame>>

\* _rememberJUnitTestcase, lines 301-315: reading self.lastCheckTime and
\* self.currentTest.where raises AttributeError when a check is counted
\* while no section has been opened.
Raises(p, logEntry) ==
    /\ p.junit_xml
    /\ logEntry.type = "WvCheckLine"
    /\ AppendImplicit(Call(p, "append", logEntry), logEntry).currentTest = None

\* The processor as the exception leaves it: the check has been counted.
Raised(p, logEntry) ==
    CountCheck(AppendImplicit(Call(p, "append", logEntry), logEntry), logEntry)

AlarmMsg ==
    "! " \o Wvtool \o ": Alarm timed out!  No test output for "
    \o TimeoutText \o " seconds.  FAILED"

\* The SIGALRM handler of _run, while the command is running.  Python runs
\* the handler in the main thread between two of its bytecodes: between two
\* lines of the read loop, or within the processLine call of the loop when
\* that call lasts longer than the timeout.
Alarm ==
    /\ driver \in {"run", "runall"}
    /\ pc \in {"reading", "appending"}
    /\ nLines < MaxLines
    /\ processor' = IF Raises(processor, Classify(AlarmMsg))
                    THEN Raised(processor, Classify(AlarmMsg))
                    ELSE processLine(processor, AlarmMsg)
    /\ ghost' = Observe(ghost, processor')
    /\ last' = Before(processor, ghost, "Alarm")
    /\ nLines' = nLines + 1
    /\ alarms' = alarms + 1
    /\ pc' = IF Raises(processor, Classify(AlarmMsg)) THEN "raised" ELSE pc
    /\ exitCode' = IF Raises(processor, Classify(AlarmMsg)) THEN 1 ELSE exitCode
    /\ UNCHANGED <<input, driver, streams, stream, failures, field, frame>>

ExitText(cmd, rc) ==
    IF rc > 0
    THEN Wvtool \o ": Program '" \o cmd \o "' returned non-zero exit code "
         \o IntText(rc)
    ELSE Wvtool \o ": Program '" \o cmd \o "' terminated by signal "
         \o IntText(-rc)

\* Mutant of RunExit: a command ended by a signal is not reported.
RunExit_PositiveOnly ==
    /\ driver \in {"run", "runall"}
    /\ pc = "reading"
    /\ AtEOF
    /\ \E rc \in ReturnCodes :
          /\ rc # 0 => nLines < MaxLines
          /\ nLines' = IF rc # 0 THEN nLines + 1 ELSE nLines
          /\ failures' = IF rc # 0 THEN failures + 1 ELSE failures
          /\ processor' =
                IF rc > 0
                THEN append(processor,
                            WvCheckLine(ExitText(Cmd(stream), rc), "FAILED"))
                ELSE processor
          /\ ghost' = IF rc > 0 THEN Observe(ghost, processor') ELSE ghost
          /\ last' = IF rc > 0
                   THEN Before(processor, ghost, "RunExit")
                   ELSE last
    /\ pc' = "func"
    /\ UNCHANGED <<input, driver, streams, stream, alarms, exitCode, field, frame>>

\* _run after the read loop (lines 480-490): the command has ended.
RunExit ==
    /\ driver \in {"run", "runall"}
    /\ pc = "reading"
    /\ AtEOF
    /\ \E rc \in ReturnCodes :
          /\ rc # 0 => nLines < MaxLines
          /\ nLines' = IF rc # 0 THEN nLines + 1 ELSE nLines
          /\ failures' = IF rc # 0 THEN failures + 1 ELSE failures
          /\ processor' =
                IF rc # 0
                THEN append(processor,
                            WvCheckLine(ExitText(Cmd(stream), rc), "FAILED"))
                ELSE processor
          /\ ghost' = IF rc # 0 THEN Observe(ghost, processor') ELSE ghost
          /\ last' = IF rc # 0
                   THEN Before(processor, ghost, "RunExit")
                   ELSE last
    /\ pc' = "func"
    /\ UNCHANGED <<input, driver, streams, stream, alarms, exitCode, field, frame>>

\* do_format: the end of standard input or of one file.
FormatEOF ==
    /\ driver = "format"
    /\ pc = "reading"
    /\ AtEOF
    /\ pc' = "func"
    /\ UNCHANGED <<input, processor, last, ghost, driver, streams, stream,
                   nLines, failures, alarms, exitCode, field, frame>>

\* main: processor.done() once args.func has returned.
Done ==
    /\ pc = "func"
    /\ stream = NStreams
    /\ processor' = done(processor)
    /\ ghost' = Observe(ghost, processor')
    /\ last' = Before(processor, ghost, "Done")
    /\ pc' = "done"
    /\ UNCHANGED <<input, driver, streams, stream, nLines, failures, alarms,
                   exitCode, field, frame>>

\* main: sys.exit(0 if processor.is_success() else 1).
Exit ==
    /\ pc = "done"
    /\ exitCode' = IF is_success(processor) THEN 0 ELSE 1
    /\ pc' = "exited"
    /\ UNCHANGED <<input, processor, last, ghost, driver, streams, stream,
                   nLines, failures, alarms, field, frame>>

Next ==
    \/ RunStart
    \/ FormatStart
    \/ ReadLine
    \/ Alarm
    \/ RunExit
    \/ FormatEOF
    \/ Done
    \/ Exit

Spec == Init /\ [][Next]_vars

(* ------------------------- the latest call --------------------------- *)

\* The latest call of a processor method was append.
AppendCall == last.by \in {"ReadLine", "Alarm", "RunExit"}

\* The latest call of a processor method was done.
DoneCall == last.by = "Done"

\* The latest call of a processor method was setImplicitTestTitle.
TitleCall == last.by \in {"RunStart", "FormatStart"}

\* The line that the latest append was given.
CallArg == processor.trace[1].arg

Finished == pc \in {"done", "exited"}

(* ------------------------------ claims -------------------------------- *)

\* C1: at most one Section is open at a time.  A call finishes at most one
\* section, the one that is open, and opens at most one, after the finish;
\* a new section opens only when the open one has been finished.  The append
\* of a SectionHeader opens the section of that header, done() opens none
\* and leaves no section open, and then every opened section has been
\* finished (opened and finished sections differ by the open one only).
C1_OneOpenSection ==
    LET t == processor.trace
        fin == FinishIdx(t)
        open == OpenIdx(t)
    IN  /\ ghost.opened - ghost.finished
              = (IF processor.currentTest = None THEN 0 ELSE 1)
        /\ Finished => ghost.opened = ghost.finished
        /\ Cardinality(fin) <= 1
        /\ Cardinality(open) <= 1
        /\ \A i \in fin : /\ last.p.currentTest # None
                          /\ t[i].test = last.p.currentTest
        /\ \A i \in fin : \A j \in open : i < j
        /\ (open # {} /\ last.p.currentTest # None) => fin # {}
        /\ (AppendCall /\ CallArg.type = "WvTestingLine") =>
              /\ open # {}
              /\ \A j \in open : t[j].test = CallArg
              /\ processor.currentTest = CallArg
        /\ DoneCall =>
              /\ open = {}
              /\ last.p.currentTest # None => fin # {}
              /\ processor.currentTest = None

\* A section header has just finished the first section and opened a second.
C1_Witness ==
    /\ IsHeaderAppend(processor)
    /\ Cardinality(FinishIdx(processor.trace)) = 1
    /\ Cardinality(OpenIdx(processor.trace)) = 1
    /\ ghost.finished = 1
    /\ ghost.opened = 2
    /\ processor.currentTest # None

\* C2: once done() has run, testCount is the number of section
\* finalizations and testFailedCount is the number of finalizations of a
\* section whose checkFailedCount was greater than 0.
C2_CountsAfterDone ==
    Finished =>
        /\ processor.testCount = ghost.finished
        /\ processor.testFailedCount = ghost.finishedFailed

\* done() has run after a passed and a failed section were finished.
C2_Witness ==
    /\ Finished
    /\ processor.testCount = 2
    /\ processor.testFailedCount = 1

\* C3: testFailedCount <= testCount in every state, and testFailedCount is
\* the number of finalizations so far of sections with a failed check: each
\* such section adds exactly 1, when it is finished, however many of its
\* checks failed, and nothing else changes testFailedCount.
C3_FailedCountedOnce ==
    /\ processor.testFailedCount <= processor.testCount
    /\ processor.testFailedCount = ghost.finishedFailed
    /\ processor.testFailedCount - last.p.testFailedCount
          = (IF FailedFinishIdx(processor.trace) # {} THEN 1 ELSE 0)

\* A section with two failed checks has just been finished and counted once.
C3_Witness ==
    /\ \E i \in 1..Len(processor.trace) :
          /\ processor.trace[i].ev = "finish"
          /\ processor.trace[i].checkFailedCount = 2
    /\ processor.testFailedCount = 1

\* The counters of a section that a call has just opened: the line of the
\* call is counted when it is a check line.
CountOf(entry) == IF entry.type = "WvCheckLine" THEN 1 ELSE 0
FailedCountOf(entry) ==
    IF entry.type = "WvCheckLine" /\ entry.result # "ok" THEN 1 ELSE 0

\* C4: 0 <= checkFailedCount <= checkCount in every state.  A call that
\* opens a section sets both counters to zero before it counts its own line;
\* while the same section stays open no call lowers a counter.
C4_CheckCounters ==
    /\ 0 <= processor.checkFailedCount
    /\ processor.checkFailedCount <= processor.checkCount
    /\ (AppendCall /\ OpenIdx(processor.trace) # {}) =>
          /\ processor.checkCount = CountOf(CallArg)
          /\ processor.checkFailedCount = FailedCountOf(CallArg)
    /\ (AppendCall /\ OpenIdx(processor.trace) = {}) =>
          /\ processor.checkCount = last.p.checkCount + CountOf(CallArg)
          /\ processor.checkFailedCount
                = last.p.checkFailedCount + FailedCountOf(CallArg)
    /\ (~AppendCall /\ ~DoneCall) =>
          /\ processor.checkCount = last.p.checkCount
          /\ processor.checkFailedCount = last.p.checkFailedCount

\* A section with a failed check was finished by a header, and the section
\* that the header opened starts with both counters at zero.
C4_Witness ==
    /\ IsHeaderAppend(processor)
    /\ \E i \in 1..Len(processor.trace) :
          /\ processor.trace[i].ev = "finish"
          /\ processor.trace[i].checkFailedCount > 0
    /\ processor.currentTest # None
    /\ processor.checkCount = 0
    /\ processor.checkFailedCount = 0

\* The latest call materialized the implicit title as a section.
Synthesis == IsSynthesis(processor)

\* The statement of C5 as the specification words it: the synthesis fires at
\* most once per run of the processor, and never once an explicit section
\* header has been seen.
C5_Original ==
    Synthesis => (last.g.synth = 0 /\ ~last.g.headerSeen)

\* C5: the synthesis fires at most once per call of setImplicitTestTitle,
\* that is once per command of run and runall and once per input of
\* format, and never once a section header or a line that is not blank has
\* been appended since that call: it fires only while the title of that
\* call is pending, opens the section of that title and clears the title,
\* and a section header clears the title too.  Over the whole run it fires
\* at most once per command or input, also after the headers of earlier
\* ones.
C5_OncePerTitle ==
    /\ Synthesis =>
          /\ last.p.implicitTestTitle # None
          /\ last.g.synthSinceTitle = 0
          /\ ~last.g.headerSinceTitle
          /\ \A i \in OpenIdx(processor.trace) :
                processor.trace[i].test = last.p.implicitTestTitle
          /\ processor.implicitTestTitle = None
    /\ ghost.synthSinceTitle <= 1
    /\ ghost.synth <= stream
    /\ (ghost.synthSinceTitle = 1 \/ ghost.headerSinceTitle) =>
          processor.implicitTestTitle = None

\* The second command or input of the run starts with a line that is no
\* header: the synthesis fires a second time.
C5_Witness ==
    /\ Synthesis
    /\ last.g.synth = 1
    /\ ghost.synth = 2
    /\ stream = 2

\* The lines that append takes for blank while a title is pending.
Blank(entry) == Str(entry) = ""

\* C6: when a default header is pending and a line arrives that is neither
\* blank nor a section header, exactly one section is opened, named from
\* the default header; the default header is put into the section buffer
\* just before the line, the pending header is cleared, and the line is
\* processed as a line of that section (a check line is its first check, a
\* plain or tag line is captured and counts as no check).  A blank line that
\* arrives while the default header is pending opens and finishes nothing,
\* leaves the header pending and the counters alone, and is put into the
\* buffer.
C6_SynthesisOnContent ==
    (AppendCall /\ last.p.implicitTestTitle # None) =>
        /\ (~Blank(CallArg) /\ CallArg.type # "WvTestingLine") =>
              /\ Cardinality(OpenIdx(processor.trace)) = 1
              /\ \A i \in OpenIdx(processor.trace) :
                    processor.trace[i].test = last.p.implicitTestTitle
              /\ ghost.opened = last.g.opened + 1
              /\ processor.currentTest = last.p.implicitTestTitle
              /\ processor.implicitTestTitle = None
              /\ processor.entries
                    = (IF last.p.currentTest = None
                       THEN last.p.entries ELSE <<>>)
                      \o <<last.p.implicitTestTitle, CallArg>>
              /\ processor.checkCount = CountOf(CallArg)
              /\ processor.checkFailedCount = FailedCountOf(CallArg)
              /\ processor.testCount = last.p.testCount + 1
        /\ Blank(CallArg) =>
              /\ OpenIdx(processor.trace) = {}
              /\ FinishIdx(processor.trace) = {}
              /\ ghost.opened = last.g.opened
              /\ processor.implicitTestTitle = last.p.implicitTestTitle
              /\ processor.currentTest = last.p.currentTest
              /\ processor.entries = Append(last.p.entries, CallArg)
              /\ processor.checkCount = last.p.checkCount
              /\ processor.checkFailedCount = last.p.checkFailedCount
              /\ processor.testCount = last.p.testCount
              /\ processor.testFailedCount = last.p.testFailedCount

\* A blank line left the default header pending, and the plain line after
\* it opened the section of the default header.
C6_Witness ==
    /\ AppendCall
    /\ last.p.implicitTestTitle # None
    /\ Len(last.p.entries) = 1
    /\ Blank(last.p.entries[1])
    /\ CallArg.type = "WvPlainLine"
    /\ ~Blank(CallArg)
    /\ processor.currentTest = last.p.implicitTestTitle
    /\ processor.checkCount = 0
    /\ Len(processor.entries) = 3

\* The statement of C7 as the specification words it: the append of a Tag
\* or Plain line leaves the four counters as they were.
C7_Original ==
    (AppendCall /\ CallArg.type \in {"WvTagLine", "WvPlainLine"}) =>
        /\ processor.checkCount = last.p.checkCount
        /\ processor.checkFailedCount = last.p.checkFailedCount
        /\ processor.testCount = last.p.testCount
        /\ processor.testFailedCount = last.p.testFailedCount

\* C7: the append of a Tag or Plain line leaves the four counters as they
\* were, unless a default header is pending and the line is not blank.
\* Then the append opens the section of the default header: testCount grows
\* by 1, checkCount and checkFailedCount become 0, and testFailedCount grows
\* by 1 when a section with a failed check was open.  The line itself is
\* never counted as a check.
C7_TagPlainCounters ==
    (AppendCall /\ CallArg.type \in {"WvTagLine", "WvPlainLine"}) =>
        IF last.p.implicitTestTitle # None /\ ~Blank(CallArg)
        THEN /\ processor.checkCount = 0
             /\ processor.checkFailedCount = 0
             /\ processor.testCount = last.p.testCount + 1
             /\ processor.testFailedCount
                   = last.p.testFailedCount
                     + (IF last.p.currentTest # None
                           /\ last.p.checkFailedCount > 0
                        THEN 1 ELSE 0)
        ELSE /\ processor.checkCount = last.p.checkCount
             /\ processor.checkFailedCount = last.p.checkFailedCount
             /\ processor.testCount = last.p.testCount
             /\ processor.testFailedCount = last.p.testFailedCount

\* A tag line was appended to an open section that holds a check, with no
\* default header pending: the counters stay as they were.
C7_Witness ==
    /\ AppendCall
    /\ CallArg.type = "WvTagLine"
    /\ last.p.implicitTestTitle = None
    /\ processor.checkCount = 1
    /\ processor.testCount = 1

\* The last event of the run of print events that follows event i of t.
EndOfPrints(t, i) ==
    CHOOSE j \in i..Len(t) :
        /\ \A k \in (i + 1)..j : t[k].ev = "print"
        /\ j = Len(t) \/ t[j + 1].ev # "print"

\* What the finalization at event i of t printed, in order.
FinalPrints(t, i) ==
    [k \in 1..(EndOfPrints(t, i) - i) |-> t[i + k].line]

\* What the table of C8 prints for a section with this header and buffer.
TableOutput(verbosity, header, failed, buffer) ==
    IF verbosity = SUMMARY
    THEN <<asWvCheckLine(header, IF failed THEN "FAILED" ELSE "ok")>>
    ELSE IF verbosity = NORMAL
    THEN IF failed THEN buffer ELSE <<asWvCheckLine(header, "ok")>>
    ELSE <<>>

AfterFinal(t) == IF FinishIdx(t) = {} THEN 2 ELSE EndOfPrints(t, 2) + 1

\* C9: done() first finalizes the section that is still open (and prints
\* what the finalization prints), then writes the JUnit XML of all finished
\* sections when a JUnit file is given, then prints the summary line with
\* the final testCount and testFailedCount, and nothing else.  Afterwards
\* no section is open, and the process exits with status 0 when
\* testFailedCount is 0 and with status 1 otherwise.
C9_DoneOrder ==
    DoneCall =>
        LET t == processor.trace
            a == AfterFinal(t)
        IN  /\ t[1] = [ev |-> "call", op |-> "done", arg |-> None]
            /\ FinishIdx(t) = (IF last.p.currentTest # None THEN {2} ELSE {})
            /\ OpenIdx(t) = {}
            /\ Len(t) = (IF processor.junit_xml THEN a + 1 ELSE a)
            /\ processor.junit_xml =>
                  /\ t[a].ev = "xml"
                  /\ t[a].testsuites = processor.junitTestsuites
                  /\ Len(t[a].testsuites) = ghost.finished
            /\ t[Len(t)].ev = "summary"
            /\ t[Len(t)].total = processor.testCount
            /\ t[Len(t)].fail = processor.testFailedCount
            /\ processor.testCount = last.p.testCount
            /\ processor.currentTest = None
            /\ pc = "exited" =>
                  exitCode = (IF processor.testFailedCount = 0 THEN 0 ELSE 1)

\* done() finalized an open section with a failed check, wrote the JUnit
\* XML and the summary, and the process exited with status 1.
C9_Witness ==
    /\ DoneCall
    /\ pc = "exited"
    /\ exitCode = 1
    /\ processor.junit_xml
    /\ FinishIdx(processor.trace) = {2}
    /\ Len(processor.trace) > 4

\* The text of the check line that an alarm makes.
AlarmText ==
    Wvtool \o ": Alarm timed out!  No test output for "
    \o TimeoutText \o " seconds."

\* The check texts that the driver makes for commands that failed.
ExitTexts ==
    {WvCheckLine(ExitText(Cmd(i), rc), "FAILED").text :
        i \in 1..(MaxStreams + 1), rc \in ReturnCodes \ {0}}

\* The failed cases of the testsuites whose name is one of texts.
FailedCases(testsuites, texts) ==
    {c \in (1..Len(testsuites)) \X (1..(MaxLines + 1)) :
        /\ c[2] <= Len(testsuites[c[1]].testcases)
        /\ testsuites[c[1]].testcases[c[2]].name \in texts
        /\ testsuites[c[1]].testcases[c[2]].failure
              = [type |-> "WvTest check",
                 message |-> testsuites[c[1]].testcases[c[2]].name]}

\* C10: a command that ends with a return code other than 0 (an exit code
\* or a signal) and an alarm are each reported by the append of a check
\* line with the result FAILED.  The line is counted as a failed check of a
\* section: of the section of the title "Preamble of <command>" when the
\* title of the command is still pending (the command wrote no line that is
\* not blank), else of the open section; with a JUnit file it is remembered
\* as a failed case of that section.  So after done() testFailedCount >= 1,
\* the exit status is not 0, and the JUnit XML that done() wrote holds one
\* failed case for each of these lines.  (The alarm handler is taken to run
\* between two calls of the processor.)
C10_FailureReported ==
    /\ last.by \in {"Alarm", "RunExit"} =>
          /\ CallArg.type = "WvCheckLine"
          /\ CallArg.result = "FAILED"
          /\ CallArg.text \in (IF last.by = "Alarm"
                               THEN {AlarmText} ELSE ExitTexts)
          /\ processor.currentTest # None
          /\ processor.currentTest
                = (IF last.p.implicitTestTitle # None
                   THEN WvTestingLine("Preamble of " \o Cmd(stream), Wvtool)
                   ELSE last.p.currentTest)
          /\ processor.checkCount
                = (IF last.p.implicitTestTitle # None
                   THEN 1 ELSE last.p.checkCount + 1)
          /\ processor.checkFailedCount
                = (IF last.p.implicitTestTitle # None
                   THEN 1 ELSE last.p.checkFailedCount + 1)
          /\ processor.entries[Len(processor.entries)] = CallArg
          /\ processor.junit_xml =>
                processor.junitTestcases[Len(processor.junitTestcases)]
                   = [classname |-> JUnitName(processor),
                      name |-> CallArg.text,
                      failure |-> [type |-> "WvTest check",
                                   message |-> CallArg.text]]
    /\ (Finished /\ alarms + failures > 0) =>
          /\ processor.testFailedCount >= 1
          /\ pc = "exited" => exitCode = 1
          /\ processor.junit_xml =>
                \E i \in 1..Len(processor.trace) :
                    /\ processor.trace[i].ev = "xml"
                    /\ Cardinality(FailedCases(processor.trace[i].testsuites,
                                               {AlarmText})) = alarms
                    /\ Cardinality(FailedCases(processor.trace[i].testsuites,
                                               ExitTexts)) = failures

\* A command wrote nothing and was ended by a signal: the failed check
\* opened the Preamble section of the command, the run exited with status
\* 1 and the JUnit XML was written.
C10_Witness ==
    /\ pc = "exited"
    /\ exitCode = 1
    /\ failures = 1
    /\ alarms = 0
    /\ nLines = 1
    /\ ghost.synth = 1
    /\ processor.junit_xml
    /\ \E i \in 1..Len(processor.trace) :
          /\ processor.trace[i].ev = "xml"
          /\ Cardinality(FailedCases(processor.trace[i].testsuites,
                                     ExitTexts)) = 1
          /\ processor.trace[i].testsuites[1].testcases[1].name
                = "wvtool: Program 'c1' terminated by signal 15"

\* The cases of a list that carry a failure.
FailedIn(testcases) ==
    {k \in 1..Len(testcases) : testcases[k].failure # None}

\* The case that a check line makes in the section that is open in p.
CaseOf(p, check) ==
    [classname |-> JUnitName(p),
     name |-> check.text,
     failure |-> IF check.result = "ok" THEN None
                 ELSE [type |-> "WvTest check", message |-> check.text]]

\* The suite of the section that is open in p.
SuiteOf(p) ==
    [tests |-> p.checkCount,
     failures |-> p.checkFailedCount,
     errors |-> 0,
     name |-> JUnitName(p),
     testcases |-> p.junitTestcases,
     system_out |-> plainText(p)]

\* C11: with a JUnit file, the suites correspond one to one, in the order
\* of the finalizations, to the finalized sections: each finalization adds
\* the suite of the section that was open, at the end, and nothing else
\* changes the list, which done() writes as it is.  A suite holds one case
\* for each check line counted in its section, in the order of arrival:
\* tests is the number of its cases and failures the number of its cases
\* with a failure; a case has a failure exactly when the result of its
\* check is not ok; every case is in the suite of the section that was open
\* when its check arrived, and the cases of the open section are in no
\* suite yet.
C11_SuitesMatchSections ==
    processor.junit_xml =>
        LET fin == FinishIdx(processor.trace)
            open == OpenIdx(processor.trace)
            kept == IF fin # {} THEN <<>> ELSE last.p.junitTestcases
        IN  /\ Len(processor.junitTestsuites) = ghost.finished
            /\ processor.junitTestsuites
                  = (IF fin # {}
                     THEN Append(last.p.junitTestsuites, SuiteOf(last.p))
                     ELSE last.p.junitTestsuites)
            /\ \A s \in 1..Len(processor.junitTestsuites) :
                  LET suite == processor.junitTestsuites[s]
                  IN  /\ suite.tests = Len(suite.testcases)
                      /\ suite.failures
                            = Cardinality(FailedIn(suite.testcases))
                      /\ \A k \in 1..Len(suite.testcases) :
                            suite.testcases[k].classname = suite.name
            /\ Len(processor.junitTestcases) = processor.checkCount
            /\ Cardinality(FailedIn(processor.junitTestcases))
                  = processor.checkFailedCount
            /\ \A k \in 1..Len(processor.junitTestcases) :
                  processor.junitTestcases[k].classname = JUnitName(processor)
            /\ processor.junitTestcases
                  = (IF AppendCall /\ CallArg.type = "WvCheckLine"
                     THEN Append(kept, CaseOf(processor, CallArg))
                     ELSE kept)
            /\ Finished =>
                  \E i \in 1..Len(processor.trace) :
                      /\ processor.trace[i].ev = "xml"
                      /\ processor.trace[i].testsuites
                            = processor.junitTestsuites

\* done() wrote two suites: the first section has one passed check and the
\* second section one failed check.
C11_Witness ==
    /\ processor.junit_xml
    /\ Finished
    /\ Len(processor.junitTestsuites) = 2
    /\ processor.junitTestsuites[1].tests = 1
    /\ processor.junitTestsuites[1].failures = 0
    /\ processor.junitTestsuites[1].testcases[1].failure = None
    /\ processor.junitTestsuites[2].tests = 1
    /\ processor.junitTestsuites[2].failures = 1
    /\ processor.junitTestsuites[2].testcases[1].failure # None

(* ----------------------------- scenario A ----------------------------- *)

\* The lines of scenario A for a section title and a location.
ScenarioALines(what, where) ==
    <<"Testing \"" \o what \o "\" in " \o where \o ":\n",
      "! check one ok\n",
      "! check two FAILED\n">>

\* main with one input that delivers the lines of scenario A: one command
\* of run, standard input or one file of format.
InitA ==
    /\ \E v \in Verbosities, j \in BOOLEAN :
          processor = NewProcessor(v, j, "None")
    /\ driver \in {"run", "format"}
    /\ streams \in 0..1
    /\ driver = "run" => streams = 1
    /\ stream = 0
    /\ \E what \in {"foo", "t"}, where \in {"bar", "w.t"} :
          input = TheLines(ScenarioALines(what, where))
    /\ pc = "func"
    /\ nLines = 0
    /\ failures = 0
    /\ alarms = 0
    /\ ghost = NoGhost
    /\ last = Before(processor, NoGhost, "Init")
    /\ exitCode = None
    /\ field = NoField
    /\ frame = NoFrame

ScenarioA == InitA /\ [][Next]_vars

\* The run is over and its input was the lines of the scenario only: no
\* alarm fired and the command did not fail.
ScenarioDone == Finished /\ alarms = 0 /\ failures = 0

\* The section that the header line of the scenario names.
ScenarioTest == Classify(rstrip(input.lines[1]))

\* C12: for the input that is one section header, one check with the
\* result ok and one check with the result FAILED, the run has exactly one
\* section, finished by done() with checkCount = 2 and checkFailedCount =
\* 1; it ends with testCount = 1 and testFailedCount = 1, the summary line
\* reports 1 test and 1 failure, the exit status is 1, and with a JUnit
\* file the XML holds one suite with tests = 2 and failures = 1 whose first
\* case has no failure and whose second case has one.
C12_ScenarioA ==
    ScenarioDone =>
        LET t == processor.trace
        IN  /\ input.pos = 3
            /\ ghost.opened = 1
            /\ ghost.finished = 1
            /\ ghost.synth = 0
            /\ t[2] = [ev |-> "finish", test |-> ScenarioTest,
                       checkCount |-> 2, checkFailedCount |-> 1]
            /\ processor.testCount = 1
            /\ processor.testFailedCount = 1
            /\ t[Len(t)] = [ev |-> "summary", total |-> 1, plt |-> "",
                            fail |-> 1, plf |-> ""]
            /\ pc = "exited" => exitCode = 1
            /\ processor.junit_xml =>
                  \E i \in 1..Len(t) :
                      /\ t[i].ev = "xml"
                      /\ Len(t[i].testsuites) = 1
                      /\ t[i].testsuites[1].tests = 2
                      /\ t[i].testsuites[1].failures = 1
                      /\ Len(t[i].testsuites[1].testcases) = 2
                      /\ t[i].testsuites[1].testcases[1].name = "check one"
                      /\ t[i].testsuites[1].testcases[1].failure = None
                      /\ t[i].testsuites[1].testcases[2].name = "check two"
                      /\ t[i].testsuites[1].testcases[2].failure # None

\* The three lines of the scenario were read from standard input, the JUnit
\* XML was written and the process exited with status 1.
C12_Witness ==
    /\ ScenarioDone
    /\ pc = "exited"
    /\ exitCode = 1
    /\ driver = "format"
    /\ streams = 0
    /\ input.pos = 3
    /\ processor.junit_xml
    /\ processor.testCount = 1
    /\ ScenarioTest = WvTestingLine("foo", "bar")

(* ------------------------------ claims -------------------------------- *)

\* The line before the latest call was the header of the section that was
\* open at the call.
AfterHeader ==
    /\ last.p.currentTest # None
    /\ last.p.entries # <<>>
    /\ last.p.entries[Len(last.p.entries)] = last.p.currentTest

\* C13: when a section header arrives right after another section header,
\* the section of the first header is finalized with checkCount = 0 and
\* checkFailedCount = 0: it is counted once in testCount (testCount is the
\* finalized sections and the one that the second header opens), it adds
\* nothing to testFailedCount, and it is reported as passed: the one ok line
\* at SUMMARY and NORMAL, and with a JUnit file a suite with tests = 0,
\* failures = 0 and no case.  No finalization of a section without checks
\* adds to testFailedCount.
C13_EmptySectionPasses ==
    /\ (AppendCall /\ CallArg.type = "WvTestingLine" /\ AfterHeader) =>
          /\ \E i \in FinishIdx(processor.trace) :
                /\ processor.trace[i]
                      = [ev |-> "finish", test |-> last.p.currentTest,
                         checkCount |-> 0, checkFailedCount |-> 0]
                /\ FinalPrints(processor.trace, i)
                      = (IF last.p.verbosity = VERBOSE THEN <<>>
                         ELSE <<asWvCheckLine(last.p.currentTest, "ok")>>)
          /\ ghost.finished = last.g.finished + 1
          /\ ghost.finishedFailed = last.g.finishedFailed
          /\ processor.testCount = ghost.finished + 1
          /\ processor.testCount = last.p.testCount + 1
          /\ processor.testFailedCount = last.p.testFailedCount
          /\ processor.junit_xml =>
                LET suite == processor.junitTestsuites[ghost.finished]
                IN  /\ suite.tests = 0
                    /\ suite.failures = 0
                    /\ suite.testcases = <<>>
                    /\ suite.name = JUnitName(last.p)
    /\ (FinishIdx(processor.trace) # {} /\ last.p.checkCount = 0) =>
          processor.testFailedCount = last.p.testFailedCount

\* Two section headers arrived one after the other, and the second one
\* finalized the empty section of the first.
C13_Witness ==
    /\ AppendCall
    /\ CallArg.type = "WvTestingLine"
    /\ AfterHeader
    /\ last.p.entries = <<last.p.currentTest>>
    /\ processor.testCount = 2
    /\ processor.testFailedCount = 0
    /\ processor.currentTest = CallArg

(* ---------------------------- the classifier -------------------------- *)

\* The pieces that the lines given to the classifier are made of.
Frags == {"", "! ", "a", " ok", " ", "Testing \"", "\" in ", ":", "wvtest:"}

RECURSIVE FragLines(_)
\* The texts made of n pieces.
FragLines(n) ==
    IF n = 0 THEN {""}
    ELSE {f \o l : f \in Frags, l \in FragLines(n - 1)}

\* main with one input that delivers one line made of pieces; the
\* processor has the default options.
InitLine ==
    /\ processor = NewProcessor(NORMAL, FALSE, "")
    /\ driver \in {"run", "format"}
    /\ streams \in 0..1
    /\ driver = "run" => streams = 1
    /\ stream = 0
    /\ \E l \in FragLines(MaxFrags) : input = TheLines(<<l \o "\n">>)
    /\ pc = "func"
    /\ nLines = 0
    /\ failures = 0
    /\ alarms = 0
    /\ ghost = NoGhost
    /\ last = Before(processor, NoGhost, "Init")
    /\ exitCode = None
    /\ field = NoField
    /\ frame = NoFrame

LineSpec == InitLine /\ [][Next]_vars

\* The line classes in the order of processLine, and their patterns.
Kinds == <<"WvCheckLine", "WvTestingLine", "WvTagLine", "WvPlainLine">>

Matches(kind, line) ==
    CASE kind = "WvCheckLine" -> CheckMatch(line)
      [] kind = "WvTestingLine" -> TestingMatch(line)
      [] kind = "WvTagLine" -> TagMatch(line)
      [] kind = "WvPlainLine" -> PlainMatch(line)

\* The first class in the order whose pattern matches the line.
FirstMatch(line) ==
    LET ks == {k \in 1..Len(Kinds) : Matches(Kinds[k], line)}
    IN  Kinds[CHOOSE k \in ks : \A j \in ks : k <= j]

NoSpaceIn(s) == \A i \in 1..Len(s) : ~IsSpace(Char(s, i))

\* The line that the latest ReadLine read, as processLine strips it.
ReadText == rstrip(input.lines[input.pos])

\* C14: processLine gives every line exactly one of the four classes: the
\* first of WvCheckLine, WvTestingLine, WvTagLine, WvPlainLine whose pattern
\* matches the stripped line.  The pattern of WvPlainLine matches every
\* line, so a line is always classified (no "Non-matched line").  The
\* fields of the entry are parts of the line: a plain entry is the line, a
\* header prints as the line, a tag is the end of the line, and the result
\* of a check is the last word of the line.
C14_ClassifyOrdered ==
    last.by = "ReadLine" =>
        /\ CallArg # None
        /\ CallArg.type \in {Kinds[k] : k \in 1..Len(Kinds)}
        /\ CallArg.type = FirstMatch(ReadText)
        /\ Matches("WvPlainLine", ReadText)
        /\ CallArg.type = "WvPlainLine" => CallArg.line = ReadText
        /\ CallArg.type = "WvTestingLine" => Str(CallArg) = ReadText
        /\ CallArg.type = "WvTagLine" =>
              /\ SubSeq(ReadText, Len(ReadText) - Len(CallArg.tag) + 1,
                        Len(ReadText)) = CallArg.tag
              /\ lstrip(CallArg.tag) = CallArg.tag
        /\ CallArg.type = "WvCheckLine" =>
              /\ CallArg.result # ""
              /\ NoSpaceIn(CallArg.result)
              /\ SubSeq(ReadText, Len(ReadText) - Len(CallArg.result) + 1,
                        Len(ReadText)) = CallArg.result
              /\ CallArg.text
                    = lstrip(rstrip(SubSeq(ReadText, 2,
                                Len(ReadText) - Len(CallArg.result))))

\* The line "! wvtest: ok" matches the patterns of WvCheckLine and of
\* WvPlainLine and was classified as a check.
C14_Witness ==
    /\ last.by = "ReadLine"
    /\ ReadText = "! wvtest: ok"
    /\ CallArg.type = "WvCheckLine"
    /\ CallArg.text = "wvtest:"
    /\ CallArg.result = "ok"

(* --------------------------- wvjunit escaping ------------------------- *)
(* Text is a sequence of character codes here: the null character and the  *)
(* control characters have no place in a TLA+ string.                      *)

\* The decimal digits of a code below 100, as codes ("%d").
Dec(c) ==
    IF c < 10 THEN <<48 + c>> ELSE <<48 + (c \div 10), 48 + (c % 10)>>

\* "&#%d;" % c
Ref(c) == <<38, 35>> \o Dec(c) \o <<59>>

\* escEntities (wvjunit.py lines 19-22): the keys in the order of insertion
\* and the replacement of each key.
EscKeys ==
    SelectSeq([i \in 1..31 |-> i], LAMBDA i : i \notin {9, 10, 13}) \o <<0>>

escEntities == [c \in (0..31) \ {9, 10, 13} |-> IF c = 0 THEN <<>> ELSE Ref(c)]

\* The entities of quoteattr: {**entities, '\n': .., '\r': .., '\t': ..}.
AttrKeys == EscKeys \o <<10, 13, 9>>

AttrEntities == [c \in 0..31 |-> IF c = 0 THEN <<>> ELSE Ref(c)]

RECURSIVE ReplaceCode(_, _, _)
\* str.replace(old, new) for a one-character old.
ReplaceCode(s, old, new) ==
    IF s = <<>> THEN <<>>
    ELSE (IF Head(s) = old THEN new ELSE <<Head(s)>>)
         \o ReplaceCode(Tail(s), old, new)

RECURSIVE DictReplace(_, _, _)
\* xml.sax.saxutils.__dict_replace: one replace per key, in order.
DictReplace(s, keys, d) ==
    IF keys = <<>> THEN s
    ELSE DictReplace(ReplaceCode(s, Head(keys), d[Head(keys)]), Tail(keys), d)

\* The replacements of "&", ">" and "<" that escape makes first.
EscapeMarkup(s) ==
    ReplaceCode(ReplaceCode(ReplaceCode(s, 38, <<38, 97, 109, 112, 59>>),
                            62, <<38, 103, 116, 59>>),
                60, <<38, 108, 116, 59>>)

\* Mutant of escape: the entities are replaced before the markup.
escape_EntitiesFirst(data, keys, entities) ==
    EscapeMarkup(DictReplace(data, keys, entities))

\* xml.sax.saxutils.escape(data, entities)
escape(data, keys, entities) ==
    DictReplace(EscapeMarkup(data), keys, entities)

Has(s, c) == \E i \in 1..Len(s) : s[i] = c

\* xml.sax.saxutils.quoteattr(data, entities)
Quote(data) ==
    IF Has(data, 34)
    THEN IF Has(data, 39)
         THEN <<34>> \o ReplaceCode(data, 34, <<38, 113, 117, 111, 116, 59>>)
              \o <<34>>
         ELSE <<39>> \o data \o <<39>>
    ELSE <<34>> \o data \o <<34>>

quoteattr(data) == Quote(escape(data, AttrKeys, AttrEntities))

\* The characters that field values are made of: the null character, bell,
\* tab, newline, carriage return, unit separator, the quotes, "&", "<", "A".
Codes == {0, 7, 9, 10, 13, 31, 34, 38, 39, 60, 65}

Values == UNION {[1..n -> Codes] : n \in 0..MaxValueLen}

\* JUnitBase.escaped_values for one attribute that is no float.
InitEsc ==
    /\ processor = NewProcessor(NORMAL, TRUE, "")
    /\ driver = "format"
    /\ streams = 0
    /\ stream = 0
    /\ input = AnyLines
    /\ pc = "func"
    /\ nLines = 0
    /\ failures = 0
    /\ alarms = 0
    /\ ghost = NoGhost
    /\ last = Before(processor, NoGhost, "Init")
    /\ exitCode = None
    /\ \E v \in Values : field = [NoField EXCEPT !.value = v]
    /\ frame = NoFrame

\* escaped_values, lines 57-58: the text form and the attribute form.
EscapeValues ==
    /\ ~field.escaped
    /\ field' = [value |-> field.value,
                 escaped |-> TRUE,
                 text |-> escape(field.value, EscKeys, escEntities),
                 attr |-> quoteattr(field.value)]
    /\ UNCHANGED <<processor, last, ghost, driver, streams, stream, input,
                   pc, nLines, failures, alarms, exitCode, frame>>

NextEsc == EscapeValues

EscSpec == InitEsc /\ [][NextEsc]_vars

\* What one character of a value becomes in a text node.
TextOf(c) ==
    IF c = 0 THEN <<>>
    ELSE IF c \in (1..31) \ {9, 10, 13} THEN Ref(c)
    ELSE IF c = 38 THEN <<38, 97, 109, 112, 59>>
    ELSE IF c = 62 THEN <<38, 103, 116, 59>>
    ELSE IF c = 60 THEN <<38, 108, 116, 59>>
    ELSE <<c>>

\* What one character of a value becomes in an attribute, but for quotes.
AttrOf(c) == IF c \in {9, 10, 13} THEN Ref(c) ELSE TextOf(c)

RECURSIVE FlatText(_)
FlatText(v) == IF v = <<>> THEN <<>> ELSE TextOf(Head(v)) \o FlatText(Tail(v))

RECURSIVE FlatAttr(_)
FlatAttr(v) == IF v = <<>> THEN <<>> ELSE AttrOf(Head(v)) \o FlatAttr(Tail(v))

\* C15: in the text form and in the attribute form of a field value, every
\* control character with a code in 1..31 other than tab, newline and
\* carriage return is replaced by its numeric character reference and the
\* null character is removed; each character of the value is replaced on
\* its own, so no reference that was produced is escaped again.  (The
\* attribute form is quoted and replaces tab, newline and carriage return
\* by references too.)
C15_ControlCharsEscaped ==
    field.escaped =>
        /\ field.text = FlatText(field.value)
        /\ field.attr = Quote(FlatAttr(field.value))
        /\ \A i \in 1..Len(field.text) :
              field.text[i] \notin (0..31) \ {9, 10, 13}
        /\ \A i \in 1..Len(field.attr) : field.attr[i] \notin 0..31

\* The value is a bell and a null character: the forms are "&#7;" and
\* "&#7;" in quotes.
C15_Witness ==
    /\ field.escaped
    /\ field.value = <<7, 0>>
    /\ field.text = <<38, 35, 55, 59>>
    /\ field.attr = <<34, 38, 35, 55, 59, 34>>

(* ------------------- the alarm handler and the read loop -------------- *)

\* The statements of append, in program order.
AppendAt(p, logEntry, at) ==
    CASE at = 1 -> AppendImplicit(p, logEntry)
      [] at = 2 -> AppendDispatch(p, logEntry)
      [] at = 3 -> AppendList(p, logEntry)
      [] at = 4 -> AppendEcho(p, logEntry)
      [] at = 5 -> AppendLog(p, logEntry)

\* The last statement of append.
AppendEnd == 5

\* wvtool run: one command, any configuration of the processor.
InitSig == Init /\ driver = "run"

\* _run, lines 477-478, and processLine up to its call of append: the line
\* is read, the alarm is set again, the line is stripped and classified.
ReadBegin ==
    /\ pc = "reading"
    /\ input.free => nLines < MaxLines
    /\ \E line \in NextLines :
          frame' = [logEntry |-> Classify(rstrip(line)), at |-> 1]
    /\ input' = IF input.free THEN input ELSE [input EXCEPT !.pos = @ + 1]
    /\ nLines' = nLines + 1
    /\ pc' = "appending"
    /\ UNCHANGED <<processor, last, ghost, driver, streams, stream, failures,
                   alarms, exitCode, field>>

\* One statement of the append call that processLine makes.
AppendStep ==
    /\ pc = "appending"
    /\ processor' = AppendAt(Call(processor, "append", frame.logEntry),
                             frame.logEntry, frame.at)
    /\ ghost' = Observe(ghost, processor')
    /\ last' = Before(processor, ghost, "ReadLine")
    /\ frame' = IF frame.at = AppendEnd THEN NoFrame
                ELSE [frame EXCEPT !.at = @ + 1]
    /\ pc' = IF frame.at = AppendEnd THEN "reading" ELSE "appending"
    /\ UNCHANGED <<input, driver, streams, stream, nLines, failures, alarms,
                   exitCode, field>>

NextSig ==
    \/ RunStart
    \/ ReadBegin
    \/ AppendStep
    \/ Alarm
    \/ RunExit
    \/ Done
    \/ Exit

SigSpec == InitSig /\ [][NextSig]_vars

\* C16: the alarm handler never processes its line while the line that the
\* read loop has read is partly processed: lines are processed one at a
\* time, in arrival order.
C16_OneLineAtATime == last.by = "Alarm" => pc # "appending"

(* ------------------------------ testCount ----------------------------- *)

\* C17 (as stated): in every state, also while a section is open, testCount
\* is the number of sections finalized so far.
C17_Original == processor.testCount = ghost.finished

\* C17: testCount is incremented by the opening of a section: every call
\* adds to it the number of sections that it opens, and in every state
\* testCount is the number of sections opened so far, which is the number
\* of sections finalized so far plus 1 while a section is open.
C17_CountsOpenedSections ==
    /\ processor.testCount =
          last.p.testCount + Cardinality(OpenIdx(processor.trace))
    /\ processor.testCount = ghost.opened
    /\ processor.testCount =
          ghost.finished + (IF processor.currentTest # None THEN 1 ELSE 0)

\* A header has finished the first section and opened the second one, which
\* is open and counted.
C17_Witness ==
    /\ AppendCall
    /\ CallArg.type = "WvTestingLine"
    /\ processor.currentTest = CallArg
    /\ ghost.finished = 1
    /\ last.p.testCount = 1
    /\ processor.testCount = 2

(* ------------------------------ check lines --------------------------- *)

\* Result words of check lines.
Tokens == {"ok", "OK", "Ok", "okay", "FAILED", "0"}

\* A check line with the given result.
CheckText(token) == "! c " \o token \o "\n"

\* main with inputs of which the first one delivers one or two check lines.
InitChecks ==
    /\ \E v \in Verbosities, j \in BOOLEAN :
          processor = NewProcessor(v, j, "None")
    /\ driver \in {"run", "runall", "format"}
    /\ streams \in 0..MaxStreams
    /\ driver = "run" => streams = 1
    /\ driver = "runall" => streams >= 1
    /\ stream = 0
    /\ \E t1 \in Tokens, t2 \in Tokens :
          input \in {TheLines(<<CheckText(t1)>>),
                     TheLines(<<CheckText(t1), CheckText(t2)>>)}
    /\ pc = "func"
    /\ nLines = 0
    /\ failures = 0
    /\ alarms = 0
    /\ ghost = NoGhost
    /\ last = Before(processor, NoGhost, "Init")
    /\ exitCode = None
    /\ field = NoField
    /\ frame = NoFrame

CheckSpec == InitChecks /\ [][Next]_vars

\* The latest call appended a check line while a section was open.
CheckInOpen ==
    /\ AppendCall
    /\ CallArg.type = "WvCheckLine"
    /\ last.p.currentTest # None

\* What C18 says of the counters.
CheckCounted ==
    /\ processor.checkCount = last.p.checkCount + 1
    /\ processor.checkFailedCount =
          last.p.checkFailedCount + (IF CallArg.result = "ok" THEN 0 ELSE 1)
    /\ processor.testCount = last.p.testCount
    /\ processor.testFailedCount = last.p.testFailedCount

\* C18 (as stated): a check line appended while a section is open adds 1 to
\* checkCount, adds 1 to checkFailedCount iff its result is not exactly
\* "ok", and leaves testCount and testFailedCount alone.
C18_Original == CheckInOpen => CheckCounted

\* C18: a check line appended while a section is open and no default header
\* is pending adds 1 to checkCount, adds 1 to checkFailedCount iff its
\* result is not exactly "ok" and else leaves it alone, and leaves testCount
\* and testFailedCount alone; the result is the last word of the line as it
\* was read.
C18_CheckInOpenSection ==
    (CheckInOpen /\ last.p.implicitTestTitle = None) =>
        /\ CheckCounted
        /\ processor.currentTest = last.p.currentTest
        /\ last.by = "ReadLine" =>
              input.lines[input.pos] = CheckText(CallArg.result)

\* A check line with the result OK has joined the open section, which held
\* one passed check, as a failed check.
C18_Witness ==
    /\ CheckInOpen
    /\ last.p.implicitTestTitle = None
    /\ last.by = "ReadLine"
    /\ CallArg.result = "OK"
    /\ last.p.checkCount = 1
    /\ last.p.checkFailedCount = 0
    /\ processor.checkCount = 2
    /\ processor.checkFailedCount = 1

(* ------------------------------ echo ---------------------------------- *)

\* The lines that the latest call wrote to standard output, in order.
PrintEvents == SelectSeq(processor.trace, LAMBDA e : e.ev = "print")
Printed == [i \in 1..Len(PrintEvents) |-> PrintEvents[i].line]

\* The entries that the latest call recorded in the buffer, in order: the
\* whole buffer when the call finished a section, which clears the buffer,
\* and else what the buffer has grown by.
Recorded ==
    IF FinishIdx(processor.trace) # {} THEN processor.entries
    ELSE SubSeq(processor.entries, Len(last.p.entries) + 1,
                Len(processor.entries))

\* C19: in VERBOSE mode every call of append echoes the lines that it
\* records in the buffer, a synthesized default header included, each once
\* and in the order of the buffer, and nothing else.
C19_EchoedWhenRecorded ==
    (processor.verbosity = VERBOSE /\ AppendCall) => Printed = Recorded

(* ------------------------------ log files ----------------------------- *)

\* main with --logdir: any command line of Init, the sections are logged.
InitLog ==
    /\ \E v \in Verbosities :
          processor = [NewProcessor(v, FALSE, "None") EXCEPT !.logdir = "logs"]
    /\ driver \in {"run", "runall", "format"}
    /\ streams \in 0..MaxStreams
    /\ driver = "run" => streams = 1
    /\ driver = "runall" => streams >= 1
    /\ stream = 0
    /\ input = AnyLines
    /\ pc = "func"
    /\ nLines = 0
    /\ failures = 0
    /\ alarms = 0
    /\ ghost = NoGhost
    /\ last = Before(processor, NoGhost, "Init")
    /\ exitCode = None
    /\ field = NoField
    /\ frame = NoFrame

LogSpec == InitLog /\ [][Next]_vars

\* The lines that the latest call wrote to log files, in order, and the
\* files that it wrote them to.
LogEvents == SelectSeq(processor.trace, LAMBDA e : e.ev \in {"log", "logerror"})
Logged == [i \in 1..Len(LogEvents) |-> LogEvents[i].line]
LogFiles == {LogEvents[i].file : i \in 1..Len(LogEvents)}

\* C20: with a log directory, every call of append that leaves a section
\* open writes the lines that it records in the buffer of that section, a
\* synthesized default header included, in the order of the buffer, to the
\* log file of that section and to no other file.
C20_LoggedWhenRecorded ==
    (AppendCall /\ processor.currentTest # None) =>
        /\ Logged = Recorded
        /\ LogFiles = {LogName(ghost.opened, processor.currentTest)}
        /\ \A i \in 1..Len(LogEvents) : LogEvents[i].ev = "log"

(* ------------------------------ stored suites ------------------------- *)

\* C21: a suite is never changed after the finalization that stored it:
\* every call leaves the suites that it found as they were, with their
\* counts, their cases and their captured text, also when it clears the
\* buffer and starts a new list of cases; the suite that a finalization
\* stores holds the cases and the text of the buffer as the call found
\* them.
C21_SuitesNeverMutated ==
    processor.junit_xml =>
        /\ Len(last.p.junitTestsuites) <= Len(processor.junitTestsuites)
        /\ \A i \in 1..Len(last.p.junitTestsuites) :
              processor.junitTestsuites[i] = last.p.junitTestsuites[i]
        /\ \A i \in (Len(last.p.junitTestsuites) + 1)
                        ..Len(processor.junitTestsuites) :
              /\ processor.junitTestsuites[i].testcases
                    = last.p.junitTestcases
              /\ processor.junitTestsuites[i].system_out = plainText(last.p)

\* done() finalizes the second section: the buffer is cleared and a new
\* list of cases starts, while the suite of the first section, stored
\* before, holds its failed case and its text.
C21_Witness ==
    /\ processor.junit_xml
    /\ DoneCall
    /\ Len(last.p.junitTestsuites) = 1
    /\ last.p.entries # <<>>
    /\ processor.entries = <<>>
    /\ processor.junitTestcases = <<>>
    /\ Len(processor.junitTestsuites) = 2
    /\ Len(processor.junitTestsuites[1].testcases) = 1
    /\ processor.junitTestsuites[1].testcases[1].failure # None
    /\ processor.junitTestsuites[1].system_out # "\n"

(* ------------------------------ success ------------------------------- *)

\* A failed check is accounted for: a failed section has been finished, or
\* the open section holds a failed check.
FailureAccounted ==
    \/ processor.testFailedCount > 0
    \/ processor.currentTest # None /\ processor.checkFailedCount > 0

\* C22: in a run of run, runall or format, no failed check is dropped from
\* the accounting and none is made up: in every state a failure is
\* accounted for iff a check line whose result is not ok has been appended,
\* so that is_success() after done() is false, and the exit status 1, iff
\* such a line has been appended.
C22_SuccessIffNoFailedCheck ==
    /\ FailureAccounted <=> ghost.failedCheck
    /\ Finished => (is_success(processor) <=> ~ghost.failedCheck)
    /\ pc = "exited" => exitCode = (IF ghost.failedCheck THEN 1 ELSE 0)

\* A header has reset the check counters of a section with a failed check,
\* the next section has passed, and the run has failed.
C22_Witness ==
    /\ pc = "exited"
    /\ exitCode = 1
    /\ ghost.failedCheck
    /\ ghost.finished = 2
    /\ ghost.finishedFailed = 1
    /\ last.p.checkFailedCount = 0
    /\ alarms = 0
    /\ failures = 0

(* ------------------------------ section buffer ------------------------ *)

\* C23: whenever a section is open, the first entry of the buffer is the
\* header of that section and the other entries are the lines appended
\* since it was opened, in the order of arrival: a call that opens a section
\* leaves the header, and after it the line that made a synthesized header,
\* and every other call adds its line at the end.
C23_BufferStartsWithHeader ==
    processor.currentTest # None =>
        /\ processor.entries # <<>>
        /\ processor.entries[1] = processor.currentTest
        /\ AppendCall =>
              processor.entries =
                 (IF OpenIdx(processor.trace) = {}
                  THEN Append(last.p.entries, CallArg)
                  ELSE IF CallArg.type = "WvTestingLine" THEN <<CallArg>>
                  ELSE <<processor.currentTest, CallArg>>)

\* The index in the name of a log file.
LogIndex(name) == SubSeq(name, 1, 4)

\* C24: with a log directory, no line is written to a closed log file: a
\* line is written only to the file of the open section, which is open;
\* every section that is opened gets a new file, whose index is the number
\* of sections opened so far, so the indices grow by 1 from 1 and no two
\* sections share a file; the file of a finalized section is closed, and
\* after done() the last file is closed.
C24_NoWriteAfterClose ==
    /\ \A i \in 1..Len(LogEvents) :
          /\ LogEvents[i].ev = "log"
          /\ processor.log # None
          /\ LogEvents[i].file = processor.log.name
    /\ processor.log = None <=> ghost.opened = 0
    /\ processor.log # None =>
          /\ LogIndex(processor.log.name) = "000" \o Digit(ghost.opened)
          /\ processor.log.closed <=> processor.currentTest = None
    /\ processor.currentTest # None =>
          processor.log.name = LogName(ghost.opened, processor.currentTest)
    /\ (OpenIdx(processor.trace) # {} /\ last.p.log # None) =>
          /\ processor.log.name # last.p.log.name
          /\ LogIndex(last.p.log.name) = "000" \o Digit(ghost.opened - 1)
    /\ (Finished /\ ghost.opened > 0) => processor.log.closed

\* A header has finished the first section, whose file is closed with it,
\* and is written to the new file of the second section.
C24_Witness ==
    /\ AppendCall
    /\ CallArg.type = "WvTestingLine"
    /\ last.p.log # None
    /\ ~last.p.log.closed
    /\ LogIndex(last.p.log.name) = "0001"
    /\ LogIndex(processor.log.name) = "0002"
    /\ ~processor.log.closed
    /\ Logged = <<CallArg>>
    /\ LogFiles = {processor.log.name}

====
